---- MODULE Spec2Model ----
(***************************************************************************)
(* Model of github.com/sagikazarmark/go-withings.                           *)
(*                                                                         *)
(* Part 1 (specifications Spec and FairSpec): the OAuth2 extension of      *)
(* oauth2/config.go: Config.Exchange, WithingsConfig.TokenSource and the   *)
(* auto-refreshing token source it returns, used by concurrent API calls   *)
(* that go through Client.BareDo of withings/withings.go.                  *)
(*                                                                         *)
(* Part 2 (specification SpecDo): the envelope decoder Client.Do of        *)
(* withings/withings.go applied to HTTP response bodies.                   *)
(*                                                                         *)
(* Part 3 (specification SpecURL): Config.AuthCodeURL of oauth2/config.go. *)
(*                                                                         *)
(* Part 4 (specifications SpecClient and SpecPages): resource calls of     *)
(* withings/measure.go going through PostForm, NewRequest, Do and BareDo   *)
(* of one shared Client, concurrently and page after page.                 *)
(*                                                                         *)
(* Part 5 (specification SpecMeasure): the enumerated types of             *)
(* withings/measure.go and the requests that Getmeas, Getactivity,         *)
(* Getintradayactivity and Getworkouts build.                              *)
(*                                                                         *)
(* Strings that only need to be compared are modelled as naturals, 0 being *)
(* the empty string.  Time is a natural number >= 1; 0 is the zero         *)
(* time.Time (Expiry.IsZero()).                                            *)
(***************************************************************************)
EXTENDS Integers, Sequences, FiniteSets, TLC

\* ------------------------------------------------------------------ bounds
MaxTime == 4

\* The callers sharing one token source (goroutines calling through the
\* *http.Client returned by WithingsConfig.Client).
Callers == {"c1", "c2"}

\* expires_in values the token endpoint may answer with.
ExpiresIn == {1, 2}

\* Authorization codes handed to Exchange.
Codes == {7}

\* Values of Config.RedirectURL (0 is "").
RedirectURLs == {0, 5}

\* The goroutines issuing resource calls through one shared Client.
Goroutines == {"g1", "g2"}

\* ------------------------------------------------------------------- state
VARIABLES
  now,            \* the clock (timeNow of golang.org/x/oauth2)
  RedirectURL,    \* Config.RedirectURL
  heap,           \* the *oauth2.Token objects allocated so far; a pointer is an index, 0 is nil
  issued,         \* number of token values the token endpoint has issued
  exch,           \* the Exchange call: [pc, code, tok, err, cause, tk]
  srcMade,        \* whether TokenSource has been called
  held,           \* reuseTokenSource.t (pointer into heap)
  refreshToken,   \* tokenRefresher.refreshToken
  mu,             \* reuseTokenSource.mu: "" when free, else the caller holding it
  pc,             \* per caller: position of its BareDo call
  cancelled,      \* per caller: whether its request context is done
  got,            \* per caller: the *oauth2.Token its Token() call returned (0: none)
  tokErr,         \* per caller: the error its Token() call returned
  res,            \* per caller: what BareDo returned
  inflight,       \* token-endpoint requests sent and not yet answered
  sent,           \* every Grant Request sent to the token endpoint, in order
  hist,           \* history: facts about the run that the claims refer to
  call,           \* the Client.Do call under way: [pc, raw, code, v]
  out,            \* what Client.Do returned: [bare, respNil, resp, err, v, closed, ctxDone]
  auth,           \* the Config.AuthCodeURL call: [pc, Scopes, state, opts, url]
  client,         \* the shared *withings.Client: [BaseURLPath, UserAgent]
  calls,          \* per goroutine: its resource call through the shared Client
  rq              \* the MeasureService call whose request is being built, or an IsValid call

tokVars == <<now, RedirectURL, heap, issued, exch, srcMade, held, refreshToken, mu,
             pc, cancelled, got, tokErr, res, inflight, sent, hist>>

extVars == <<auth, client, calls, rq>>

doVars == <<call, out, extVars>>

vars == <<tokVars, doVars>>

\* defaultExpiryDelta of golang.org/x/oauth2: how long before Expiry a token
\* counts as expired (10 s there, one clock unit here).
expiryDelta == 1

\* ------------------------------------------------------- oauth2.Token (library)
\* Token.expired: Expiry.Add(-expiryDelta).Before(timeNow()), never for a zero Expiry.
expiredAtOrAfter(t) == t.Expiry # 0 /\ t.Expiry - expiryDelta <= now

expired(t) == t.Expiry # 0 /\ t.Expiry - expiryDelta < now

\* Token.Valid: t != nil && t.AccessToken != "" && !t.expired().
Valid(p) == p # 0 /\ heap[p].AccessToken # 0 /\ ~expired(heap[p])

\* ------------------------------------------------------ url.Values (library)
\* url.Values is map[string][]string: a function from keys to sequences.
\* Values.Set(key, value) replaces the key's values by the single value.
Set(v, key, value) == (key :> <<value>>) @@ v

\* -------------------------------------------------------- oauth2/config.go
\* The url.Values literal and the conditional redirect_uri of Config.Exchange.
ExchangeValuesAlwaysRedirect(code) ==
  Set(("action" :> <<"requesttoken">>) @@ ("grant_type" :> <<"authorization_code">>)
        @@ ("code" :> <<code>>), "redirect_uri", RedirectURL)

ExchangeValues(code) ==
  LET v == ("action" :> <<"requesttoken">>) @@ ("grant_type" :> <<"authorization_code">>)
             @@ ("code" :> <<code>>)
  IN  IF RedirectURL # 0 THEN Set(v, "redirect_uri", RedirectURL) ELSE v

\* The Grant Request of a refresh (tokenRefresher.Token).
RefreshValues(rt) ==
  ("action" :> <<"requesttoken">>) @@ ("grant_type" :> <<"refresh_token">>)
    @@ ("refresh_token" :> <<rt>>)

\* tokenRefresher.Token refuses to refresh without a refresh token.
CanRefresh(rt) == rt # 0

\* The token payload the endpoint answers with, as internal.RetrieveToken
\* returns it (*internal.Token): a fresh access token, the refresh token rt,
\* Expiry = now + expires_in, and the whole payload as Raw.
InternalToken(rt, e) ==
  [AccessToken |-> 100 + issued, TokenType |-> "Bearer", RefreshToken |-> rt,
   Expiry |-> now + e,
   Raw |-> [userid |-> 1234, scope |-> "user.metrics", expires_in |-> e]]

\* tokenFromInternal: a new oauth2.Token with the four fields copied and the
\* raw payload attached by WithExtra.
tokenFromInternalDropsRefresh(t) ==
  [AccessToken |-> t.AccessToken, TokenType |-> t.TokenType,
   RefreshToken |-> 0, Expiry |-> t.Expiry, raw |-> t.Raw]

tokenFromInternalNoExtra(t) ==
  [AccessToken |-> t.AccessToken, TokenType |-> t.TokenType,
   RefreshToken |-> t.RefreshToken, Expiry |-> t.Expiry,
   raw |-> [expires_in |-> t.Raw.expires_in]]

tokenFromInternal(t) ==
  [AccessToken |-> t.AccessToken, TokenType |-> t.TokenType,
   RefreshToken |-> t.RefreshToken, Expiry |-> t.Expiry, raw |-> t.Raw]

\* retrieveToken, error branch: an *internal.RetrieveError is converted to
\* *oauth2.RetrieveError, any other error is returned as it is.
retrieveTokenErrSame(e) == e

retrieveTokenErr(e) == IF e = "internal.RetrieveError" THEN "oauth2.RetrieveError" ELSE e

\* Tokens a caller may have persisted and hands to TokenSource.
StoredTokens ==
  { [AccessToken |-> 1, TokenType |-> "Bearer", RefreshToken |-> r, Expiry |-> x, raw |-> [userid |-> 1234]]
      : r \in {0, 2}, x \in {0, 2} }
  \cup { [AccessToken |-> 0, TokenType |-> "Bearer", RefreshToken |-> 2, Expiry |-> 0, raw |-> [userid |-> 1234]] }

\* ---------------------------------------------------------------- Init
\* No Client.Do call under way.
DoIdle ==
  /\ call = [pc |-> "idle"]
  /\ out = [pc |-> "none"]

\* No AuthCodeURL call and no MeasureService request under way.
AuthIdle == auth = [pc |-> "idle"] /\ rq = [pc |-> "idle"]

\* newClient: BaseURL is the endpoint, whose path is "/", UserAgent is
\* "go-withings" (1); no resource call under way.
newClient ==
  /\ client = [BaseURLPath |-> <<"/">>, UserAgent |-> 1]
  /\ calls = [g \in Goroutines |-> [pc |-> "idle"]]

TokInit(urls) ==
  /\ now = 1
  /\ RedirectURL \in urls
  /\ heap = <<>>
  /\ issued = 0
  /\ exch = [pc |-> "idle", code |-> 0, tok |-> 0, err |-> "nil", cause |-> "nil", tk |-> 0]
  /\ srcMade = FALSE
  /\ held = 0
  /\ refreshToken = 0
  /\ mu = ""
  /\ pc = [p \in Callers |-> "idle"]
  /\ cancelled = [p \in Callers |-> FALSE]
  /\ got = [p \in Callers |-> 0]
  /\ tokErr = [p \in Callers |-> "nil"]
  /\ res = [p \in Callers |-> "none"]
  /\ inflight = {}
  /\ sent = <<>>
  /\ hist = [startInvalid |-> FALSE, refreshFails |-> 0, refreshOKs |-> 0,
             refreshed |-> {}, lastRT |-> 0]

Init == TokInit(RedirectURLs) /\ DoIdle /\ AuthIdle /\ newClient

\* The clock advances.
Tick ==
  /\ now < MaxTime
  /\ now' = now + 1
  /\ UNCHANGED <<doVars, RedirectURL, heap, issued, exch, srcMade, held, refreshToken, mu,
                 pc, cancelled, got, tokErr, res, inflight, sent, hist>>

\* ------------------------------------------------------------ Config.Exchange
\* Exchange builds the Grant Request and hands it to retrieveToken, which
\* posts it to the token endpoint.
Exchange(code) ==
  /\ exch.pc = "idle"
  /\ ~srcMade
  /\ LET v == ExchangeValues(code) IN
       /\ inflight' = inflight \cup {[by |-> "exchange", v |-> v]}
       /\ sent' = Append(sent, [kind |-> "exchange", v |-> v, code |-> code, cur |-> 0,
                                   last |-> 0, oks |-> 0])
  /\ exch' = [exch EXCEPT !.pc = "sent", !.code = code]
  /\ UNCHANGED <<doVars, now, RedirectURL, heap, issued, srcMade, held, refreshToken, mu,
                 pc, cancelled, got, tokErr, res, hist>>

\* The endpoint answers with a token payload: retrieveToken returns
\* tokenFromInternal(tk), nil.
ExchangeOK(rt, e) ==
  /\ exch.pc = "sent"
  /\ heap' = Append(heap, tokenFromInternal(InternalToken(rt, e)))
  /\ issued' = issued + 1
  /\ exch' = [exch EXCEPT !.pc = "done", !.tok = Len(heap) + 1, !.tk = InternalToken(rt, e)]
  /\ inflight' = {r \in inflight : r.by # "exchange"}
  /\ UNCHANGED <<doVars, now, RedirectURL, srcMade, held, refreshToken, mu,
                 pc, cancelled, got, tokErr, res, sent, hist>>

\* The endpoint reports a failure, or the transport fails: retrieveToken
\* returns nil and the error.
ExchangeFail(e) ==
  /\ exch.pc = "sent"
  /\ exch' = [exch EXCEPT !.pc = "done", !.err = retrieveTokenErr(e), !.cause = e]
  /\ inflight' = {r \in inflight : r.by # "exchange"}
  /\ UNCHANGED <<doVars, now, RedirectURL, heap, issued, srcMade, held, refreshToken, mu,
                 pc, cancelled, got, tokErr, res, sent, hist>>

\* ------------------------------------------------- WithingsConfig.TokenSource
\* TokenSource(ctx, t): a tokenRefresher holding t's refresh token (none for a
\* nil t), wrapped by oauth2.ReuseTokenSource(t, tkr), which holds t itself.
\* t is nil, the token Exchange returned, or a token the caller had stored.
\* The source is created once, after the Exchange call, if any, has returned.
TokenSourceInitAccess(t) == IF t # 0 THEN heap'[t].AccessToken ELSE 0

TokenSourceInit(t) == IF t # 0 THEN heap'[t].RefreshToken ELSE 0

TokenSource(t, stored) ==
  /\ ~srcMade
  /\ exch.pc # "sent"
  /\ \/ t = 0 /\ heap' = heap
     \/ t # 0 /\ t = exch.tok /\ heap' = heap
     \/ t = Len(heap) + 1 /\ heap' = Append(heap, stored)
  /\ srcMade' = TRUE
  /\ held' = t
  /\ refreshToken' = TokenSourceInit(t)
  /\ hist' = [hist EXCEPT !.startInvalid = ~(t # 0 /\ heap'[t].AccessToken # 0 /\ ~expired(heap'[t])),
                          !.lastRT = IF t # 0 THEN heap'[t].RefreshToken ELSE 0]
  /\ UNCHANGED <<doVars, now, RedirectURL, issued, exch, mu, pc, cancelled, got, tokErr, res,
                 inflight, sent>>

\* ------------------------------------------------------------- Client.BareDo
\* BareDo's error branch: when c.client.Do failed and the request context is
\* done, the context's error is returned instead of the transport's.
BareDoErrCtxErr(ctxDone, err) == IF ctxDone THEN "context.Canceled" ELSE "nil"

BareDoErrRaw(ctxDone, err) == err

BareDoErr(ctxDone, err) == IF ctxDone THEN "context.Canceled" ELSE err

\* reuseTokenSource.mu: Token() runs with the mutex held from entry to return.
CanLockNoMutex(p) == TRUE

CanLock(p) == mu = ""

\* reuseTokenSource.Token stores the refreshed token: s.t = t, the pointer to
\* the token tokenFromInternal has newly allocated.  The result is the pair
\* <<heap, s.t>>.
StoreTokenInPlace(h, old, tk) ==
  IF old # 0 THEN <<[h EXCEPT ![old] = tk], old>> ELSE <<Append(h, tk), Len(h) + 1>>

StoreToken(h, old, tk) == <<Append(h, tk), Len(h) + 1>>

\* A caller starts an API call: BareDo calls c.client.Do(req), whose
\* oauth2.Transport first asks the token source for a token.
Start(p) ==
  /\ srcMade
  /\ pc[p] = "idle"
  /\ pc' = [pc EXCEPT ![p] = "token"]
  /\ UNCHANGED <<doVars, now, RedirectURL, heap, issued, exch, srcMade, held, refreshToken, mu,
                 cancelled, got, tokErr, res, inflight, sent, hist>>

\* The caller's context is cancelled (by the caller, at any time before the
\* call has returned).
Cancel(p) ==
  /\ pc[p] # "done"
  /\ ~cancelled[p]
  /\ cancelled' = [cancelled EXCEPT ![p] = TRUE]
  /\ UNCHANGED <<doVars, now, RedirectURL, heap, issued, exch, srcMade, held, refreshToken, mu,
                 pc, got, tokErr, res, inflight, sent, hist>>

\* Token() with a valid held token: it is returned as it is, the mutex is
\* released, and the transport sends the API request.
TokenValid(p) ==
  /\ pc[p] = "token"
  /\ CanLock(p)
  /\ Valid(held)
  /\ got' = [got EXCEPT ![p] = held]
  /\ pc' = [pc EXCEPT ![p] = "send"]
  /\ UNCHANGED <<doVars, now, RedirectURL, heap, issued, exch, srcMade, held, refreshToken, mu,
                 cancelled, tokErr, res, inflight, sent, hist>>

\* Token() with an invalid held token and no refresh token: tokenRefresher
\* reports that re-authorization is needed; nothing is sent.  The error comes
\* back through c.client.Do to BareDo.
TokenReauth(p) ==
  /\ pc[p] = "token"
  /\ CanLock(p)
  /\ ~Valid(held)
  /\ ~CanRefresh(refreshToken)
  /\ tokErr' = [tokErr EXCEPT ![p] = "oauth2: token expired and refresh token is not set"]
  /\ res' = [res EXCEPT ![p] = BareDoErr(cancelled[p], tokErr'[p])]
  /\ pc' = [pc EXCEPT ![p] = "done"]
  /\ UNCHANGED <<doVars, now, RedirectURL, heap, issued, exch, srcMade, held, refreshToken, mu,
                 cancelled, got, inflight, sent, hist>>

\* Token() with an invalid held token and a refresh token: the refresh Grant
\* Request is sent with the mutex held.
TokenRefresh(p) ==
  /\ pc[p] = "token"
  /\ CanLock(p)
  /\ ~Valid(held)
  /\ CanRefresh(refreshToken)
  /\ mu' = p
  /\ LET v == RefreshValues(refreshToken) IN
       /\ inflight' = inflight \cup {[by |-> p, v |-> v]}
       /\ sent' = Append(sent, [kind |-> "refresh", v |-> v, code |-> 0,
                                   cur |-> IF held # 0 THEN heap[held].RefreshToken ELSE 0,
                                   last |-> hist.lastRT, oks |-> hist.refreshOKs])
  /\ pc' = [pc EXCEPT ![p] = "refreshing"]
  /\ UNCHANGED <<doVars, now, RedirectURL, heap, issued, exch, srcMade, held, refreshToken,
                 cancelled, got, tokErr, res, hist>>

\* The endpoint answers the refresh with a token payload carrying refresh
\* token rt and expires_in e: the refresher remembers rt, the source holds the
\* new token, the mutex is released and the transport sends the API request.
RefreshOK(p, rt, e) ==
  /\ pc[p] = "refreshing"
  /\ LET tk == tokenFromInternal(InternalToken(rt, e))
         st == StoreToken(heap, held, tk)
     IN  /\ heap' = st[1]
         /\ held' = st[2]
         /\ got' = [got EXCEPT ![p] = st[2]]
         /\ refreshToken' = tk.RefreshToken
  /\ issued' = issued + 1
  /\ mu' = IF mu = p THEN "" ELSE mu
  /\ inflight' = {r \in inflight : r.by # p}
  /\ pc' = [pc EXCEPT ![p] = "send"]
  /\ hist' = [hist EXCEPT !.refreshOKs = @ + 1, !.lastRT = rt,
                          !.refreshed = @ \cup {held'}]
  /\ UNCHANGED <<doVars, now, RedirectURL, exch, srcMade, cancelled, tokErr, res, sent>>

\* The refresh fails (the endpoint reports a failure, or the transport
\* fails): the source keeps what it held, the mutex is released, and the
\* error comes back through c.client.Do to BareDo.
RefreshFail(p, e) ==
  /\ pc[p] = "refreshing"
  /\ tokErr' = [tokErr EXCEPT ![p] = retrieveTokenErr(e)]
  /\ res' = [res EXCEPT ![p] = BareDoErr(cancelled[p], tokErr'[p])]
  /\ mu' = IF mu = p THEN "" ELSE mu
  /\ inflight' = {r \in inflight : r.by # p}
  /\ pc' = [pc EXCEPT ![p] = "done"]
  /\ hist' = [hist EXCEPT !.refreshFails = @ + 1]
  /\ UNCHANGED <<doVars, now, RedirectURL, heap, issued, exch, srcMade, held, refreshToken,
                 cancelled, got, sent>>

\* The API request is answered before its context is done: BareDo returns
\* the response.
HttpOK(p) ==
  /\ pc[p] = "send"
  /\ ~cancelled[p]
  /\ res' = [res EXCEPT ![p] = "ok"]
  /\ pc' = [pc EXCEPT ![p] = "done"]
  /\ UNCHANGED <<doVars, now, RedirectURL, heap, issued, exch, srcMade, held, refreshToken, mu,
                 cancelled, got, tokErr, inflight, sent, hist>>

\* The API request fails at transport level.
HttpFail(p) ==
  /\ pc[p] = "send"
  /\ res' = [res EXCEPT ![p] = BareDoErr(cancelled[p], "transport error")]
  /\ pc' = [pc EXCEPT ![p] = "done"]
  /\ UNCHANGED <<doVars, now, RedirectURL, heap, issued, exch, srcMade, held, refreshToken, mu,
                 cancelled, got, tokErr, inflight, sent, hist>>

\* The HTTP transport sees the request context done and gives the request
\* up: c.client.Do returns an error wrapping the context's.
HttpAbort(p) ==
  /\ pc[p] = "send"
  /\ cancelled[p]
  /\ res' = [res EXCEPT ![p] = BareDoErr(cancelled[p], "url.Error: context canceled")]
  /\ pc' = [pc EXCEPT ![p] = "done"]
  /\ UNCHANGED <<doVars, now, RedirectURL, heap, issued, exch, srcMade, held, refreshToken, mu,
                 cancelled, got, tokErr, inflight, sent, hist>>

\* Refresh tokens the endpoint may answer a Grant Request with: the one it
\* was sent (no rotation) or a new one (rotation).
Rotations(cur) == {cur, 200 + issued} \ {0}

Next ==
  \/ Tick
  \/ \E c \in Codes : Exchange(c)
  \/ \E e \in ExpiresIn : ExchangeOK(200 + issued, e)
  \/ \E e \in {"internal.RetrieveError", "transport error"} : ExchangeFail(e)
  \/ \E t \in {0, exch.tok} : TokenSource(t, <<>>)
  \/ \E s \in StoredTokens : TokenSource(Len(heap) + 1, s)
  \/ \E p \in Callers : Start(p)
  \/ \E p \in Callers : Cancel(p)
  \/ \E p \in Callers : TokenValid(p)
  \/ \E p \in Callers : TokenReauth(p)
  \/ \E p \in Callers : TokenRefresh(p)
  \/ \E p \in Callers, e \in ExpiresIn : \E rt \in Rotations(refreshToken) : RefreshOK(p, rt, e)
  \/ \E p \in Callers, e \in {"internal.RetrieveError", "transport error"} : RefreshFail(p, e)
  \/ \E p \in Callers : HttpOK(p)
  \/ \E p \in Callers : HttpFail(p)
  \/ \E p \in Callers : HttpAbort(p)

Spec == Init /\ [][Next]_vars

\* The scheduling the code guarantees: a goroutine that can take the mutex
\* and evaluate Token() does so, and the HTTP transport gives up a request
\* whose context is done.  Nothing obliges the token endpoint or the API
\* server to answer, a caller to start or to cancel, or time to pass.
Fairness ==
  \A p \in Callers :
    /\ WF_vars(TokenValid(p))
    /\ WF_vars(TokenReauth(p))
    /\ WF_vars(TokenRefresh(p))
    /\ WF_vars(HttpAbort(p))

FairSpec == Init /\ [][Next]_vars /\ Fairness

\* =================================================================== claims
\* Refresh requests sent so far, and those not yet answered.
RefreshSent == {i \in 1..Len(sent) : sent[i].kind = "refresh"}

RefreshInFlight == {r \in inflight : r.by \in Callers}

\* The step in which caller p's Token() call is evaluated.
TokenEval(p) == pc[p] = "token" /\ pc'[p] # "token"

\* The held credential is usable at the current time: it exists, has an
\* access token, and the clock is at or before its expiry minus the margin
\* (or it has no expiry).
HeldUsable ==
  /\ held # 0
  /\ heap[held].AccessToken # 0
  /\ (heap[held].Expiry = 0 \/ now <= heap[held].Expiry - expiryDelta)

C2_LazyRefresh ==
  [][ /\ \A p \in Callers : TokenEval(p) =>
            /\ HeldUsable => (sent' = sent /\ inflight' = inflight /\ got'[p] = held
                              /\ held' = held /\ heap' = heap)
            /\ (~HeldUsable /\ refreshToken # 0) =>
                  (Len(sent') = Len(sent) + 1 /\ sent'[Len(sent')].kind = "refresh"
                   /\ SubSeq(sent', 1, Len(sent)) = sent)
      /\ (Len(sent') > Len(sent) /\ sent'[Len(sent')].kind = "refresh")
            => (~HeldUsable /\ \E p \in Callers : TokenEval(p)) ]_vars

\* C2 witness: after a successful refresh, a second caller has been served
\* the refreshed credential without any further request.
C2_Witness ==
  /\ hist.refreshOKs = 1
  /\ Cardinality(RefreshSent) = 1
  /\ \E p, q \in Callers : p # q /\ pc[p] = "done" /\ pc[q] = "done"
        /\ got[p] = held /\ got[q] = held /\ res[p] = "ok" /\ res[q] = "ok"

\* C2 as the claim states it: a Token() call made at or after expiry minus the
\* margin performs a refresh.
C2_Original ==
  [][ \A p \in Callers :
        (TokenEval(p) /\ held # 0 /\ heap[held].Expiry # 0
           /\ now >= heap[held].Expiry - expiryDelta /\ refreshToken # 0)
        => Len(sent') = Len(sent) + 1 ]_vars

\* C3: a Token() call on a source whose held credential is unusable and has
\* no refresh token (or that was created with a nil token) returns the
\* re-authorization error, returns no credential and sends nothing.
C3_Reauth ==
  [][ \A p \in Callers :
        (TokenEval(p) /\ ~HeldUsable /\ (held = 0 \/ heap[held].RefreshToken = 0))
        => /\ tokErr'[p] = "oauth2: token expired and refresh token is not set"
           /\ got'[p] = 0
           /\ pc'[p] = "done"
           /\ sent' = sent /\ inflight' = inflight ]_vars

\* C3 witness: a caller of a source whose expired token has no refresh token
\* was refused, and nothing was sent.
C3_Witness ==
  /\ \E p \in Callers : tokErr[p] = "oauth2: token expired and refresh token is not set"
  /\ held # 0
  /\ sent = <<>>
\* C4 (as amended): a call whose API request is in flight when its context
\* is cancelled returns the context's error; a call waiting for the token
\* source stays blocked for as long as another call holds the mutex for a
\* refresh, cancelled or not; and a cancelled call that has not returned
\* eventually either returns the context's error or is held up by a refresh.
C4_Cancel ==
  /\ \A p \in Callers :
       (pc[p] = "send" /\ cancelled[p]) ~> (pc[p] = "done" /\ res[p] = "context.Canceled")
  /\ \A p \in Callers :
       (cancelled[p] /\ pc[p] \in {"token", "refreshing", "send"})
          ~> ((pc[p] = "done" /\ res[p] = "context.Canceled") \/ mu # "")
  /\ [][ \A p \in Callers : (pc[p] = "token" /\ mu # "") => pc'[p] = "token" ]_vars
  /\ [][ \A p \in Callers : (pc[p] = "refreshing" /\ pc'[p] # "refreshing") => inflight' # inflight ]_vars

\* C4 witness: every call was cancelled and has returned the context's
\* error, one of them after its API request had been sent, and a refresh was
\* run on the way.
C4_Witness ==
  /\ \A p \in Callers : pc[p] = "done" /\ cancelled[p] /\ res[p] = "context.Canceled"
  /\ \E p \in Callers : got[p] # 0 /\ tokErr[p] = "nil"
  /\ hist.refreshFails + hist.refreshOKs >= 1

\* C4 as the claim states it: a cancelled call that is waiting on a shared
\* refresh, or whose request is in flight, eventually returns.
C4_Original ==
  \A p \in Callers :
    (cancelled[p] /\ (pc[p] = "send" \/ (pc[p] = "token" /\ mu \notin {"", p})))
       ~> (pc[p] = "done")

\* C5: every Grant Request sent carries action=requesttoken and one grant
\* type; Exchange sends authorization_code with the code, redirect_uri
\* exactly when RedirectURL is set, and no refresh_token; a refresh sends
\* refresh_token with the source's current refresh token, and no code.
C5_GrantRequest ==
  \A i \in 1..Len(sent) :
    LET r == sent[i]
        v == r.v
    IN  /\ "action" \in DOMAIN v /\ v["action"] = <<"requesttoken">>
        /\ "grant_type" \in DOMAIN v /\ Len(v["grant_type"]) = 1
        /\ r.kind = "exchange" =>
             /\ v["grant_type"] = <<"authorization_code">>
             /\ "code" \in DOMAIN v /\ v["code"] = <<r.code>>
             /\ ("redirect_uri" \in DOMAIN v) <=> (RedirectURL # 0)
             /\ ("redirect_uri" \in DOMAIN v) => v["redirect_uri"] = <<RedirectURL>>
             /\ "refresh_token" \notin DOMAIN v
        /\ r.kind = "refresh" =>
             /\ v["grant_type"] = <<"refresh_token">>
             /\ "refresh_token" \in DOMAIN v /\ v["refresh_token"] = <<r.cur>>
             /\ r.cur # 0
             /\ "code" \notin DOMAIN v /\ "redirect_uri" \notin DOMAIN v

\* C5 witness: an Exchange without RedirectURL and a refresh have both been sent.
C5_Witness ==
  /\ RedirectURL = 0
  /\ \E i, j \in 1..Len(sent) : sent[i].kind = "exchange" /\ sent[j].kind = "refresh"

\* C6: once a refresh has succeeded, every later refresh request carries the
\* refresh token the most recent successful refresh returned, and that is
\* the refresh token the source holds for its next request.
C6_Rotation ==
  /\ \A i \in RefreshSent :
       sent[i].oks >= 1 => sent[i].v["refresh_token"] = <<sent[i].last>>
  /\ hist.refreshOKs >= 1 => refreshToken = hist.lastRT

\* C6 witness: a second refresh was sent after a refresh that rotated the
\* refresh token, carrying the rotated-in token.
C6_Witness ==
  \E i, j \in RefreshSent :
    /\ i < j /\ sent[j].oks = 1
    /\ sent[j].v["refresh_token"] # sent[i].v["refresh_token"]

\* C7: no step changes a credential that has been issued: every token object
\* keeps its fields, and so does the credential each caller obtained, also
\* across a refresh, which makes the source hold another object.
C7_Immutable ==
  [][ /\ \A i \in 1..Len(heap) : Len(heap') >= i /\ heap'[i] = heap[i]
      /\ \A p \in Callers : got[p] # 0 => (got'[p] = got[p] /\ heap'[got'[p]] = heap[got[p]])
      /\ (held' # held /\ srcMade) => (held' = Len(heap) + 1 /\ Len(heap') = Len(heap) + 1) ]_vars

\* C7 witness: a caller holds the credential it obtained before a refresh
\* replaced it in the source.
C7_Witness ==
  \E p \in Callers : got[p] # 0 /\ held # got[p] /\ held \in hist.refreshed
                     /\ got[p] \notin hist.refreshed

\* C21: when the token endpoint reports a failure, Exchange returns a nil
\* credential and an *oauth2.RetrieveError; a transport failure is returned
\* as the error it is, a different kind; no error comes with a credential.
C21_ExchangeError ==
  exch.pc = "done" =>
    /\ exch.cause = "internal.RetrieveError" =>
          (exch.err = "oauth2.RetrieveError" /\ exch.tok = 0)
    /\ exch.cause = "transport error" =>
          (exch.err = "transport error" /\ exch.tok = 0)
    /\ exch.err # "nil" => (exch.tok = 0 /\ exch.tk = 0)
    /\ exch.err = "nil" <=> exch.tok # 0

\* C21 witness: Exchange has returned the endpoint's failure.
C21_Witness ==
  exch.pc = "done" /\ exch.cause = "internal.RetrieveError"
    /\ exch.err = "oauth2.RetrieveError" /\ exch.tok = 0

\* Token.Extra(key) of golang.org/x/oauth2 returns the raw payload's value
\* for key (nil when there is none): t.Extra(key) is val.
HasExtra(t, key, val) == key \in DOMAIN t.raw /\ t.raw[key] = val

\* C22: the credential Exchange returns has the access token, refresh token,
\* token type and expiry of the token payload, and every field of the raw
\* payload (userid, scope, expires_in) is retrievable from it as an extra.
C22_ExchangeToken ==
  (exch.pc = "done" /\ exch.tok # 0) =>
    LET t == heap[exch.tok]
        tk == exch.tk
    IN  /\ t.AccessToken = tk.AccessToken /\ t.AccessToken # 0
        /\ t.RefreshToken = tk.RefreshToken
        /\ t.TokenType = tk.TokenType
        /\ t.Expiry = tk.Expiry
        /\ \A k \in DOMAIN tk.Raw : HasExtra(t, k, tk.Raw[k])
        /\ {"userid", "scope"} \subseteq DOMAIN tk.Raw

\* C22 witness: Exchange has returned a credential whose userid extra is the
\* payload's.
C22_Witness ==
  /\ exch.pc = "done" /\ exch.tok # 0
  /\ HasExtra(heap[exch.tok], "userid", 1234)
  /\ heap[exch.tok].RefreshToken = exch.tk.RefreshToken /\ exch.tk.RefreshToken # 0

\* ====================================================== Part 2: Client.Do
\* A JSON value is [t |-> kind, x |-> value]: "absent" (no such key), "null",
\* "bool", "num", "str", "arr" or "obj".  A number is held in tenths, so that
\* 25 is 2.5 and 30 is 3: encoding/json hands every number to mapstructure as
\* a float64.  The response body is [top, status, body]: top says what the
\* text is ("empty", "malformed", or the kind of its JSON value), status and
\* body are the values of the envelope's two keys; an object body is
\* [t |-> "obj", more, offset, updatetime], its keys' values.
Absent == [t |-> "absent", x |-> 0]

Num(n) == [t |-> "num", x |-> n]

Str == [t |-> "str", x |-> 0]

\* Values of body.more, body.offset, body.updatetime and status tried.
MaxOffset == 3

BoolValues == {[t |-> "bool", x |-> b] : b \in BOOLEAN}

IntValues == {Num(10 * n) : n \in 0..MaxOffset}

StatusValues == {Num(0), Num(10), Num(4010), Num(5), [t |-> "null", x |-> 0]}

Scalars == {Absent, [t |-> "null", x |-> 0], Num(25)}

Bodies ==
  { [t |-> "obj", more |-> m, offset |-> o, updatetime |-> u] :
      m \in BoolValues \cup Scalars,
      o \in IntValues \cup {Absent, Num(25), Str},
      u \in {Absent, Num(20), Num(-15), Str} }

\* int64(f) of a float64: truncation toward zero.
ToInt(n) == IF n >= 0 THEN n \div 10 ELSE -((-n) \div 10)

\* mapstructure decoding one value into an int field holding old: a missing
\* key or a null leaves the field alone, a number is converted, anything else
\* is an error (WeaklyTypedInput is off).
decodeInt(j, old) ==
  CASE j.t \in {"absent", "null"} -> [ok |-> TRUE, val |-> old]
    [] j.t = "num" -> [ok |-> TRUE, val |-> ToInt(j.x)]
    [] OTHER -> [ok |-> FALSE, val |-> old]

\* mapstructure decoding one value into a bool field holding old.
decodeBool(j, old) ==
  CASE j.t \in {"absent", "null"} -> [ok |-> TRUE, val |-> old]
    [] j.t = "bool" -> [ok |-> TRUE, val |-> j.x]
    [] OTHER -> [ok |-> FALSE, val |-> old]

\* decode(body, &apiResp): the envelope's metadata, by field name.
decodeApiResponse(doc) ==
  LET st == decodeInt(doc.status, 0)
      isObj == doc.body.t = "obj"
      mo == IF isObj THEN decodeBool(doc.body.more, FALSE) ELSE [ok |-> TRUE, val |-> FALSE]
      of == IF isObj THEN decodeInt(doc.body.offset, 0) ELSE [ok |-> TRUE, val |-> 0]
  IN  [ok |-> st.ok /\ mo.ok /\ of.ok /\ doc.body.t \in {"absent", "null", "obj"},
       Status |-> st.val, More |-> mo.val, Offset |-> of.val]

\* decode(body, v) for a target shaped like getmeasResponse (a struct with a
\* Body whose UpdateTime is an int).  A nil v is refused by
\* mapstructure.NewDecoder: the result must be a pointer.
decodeTarget(doc, v) ==
  IF v.nil THEN [ok |-> FALSE, v |-> v]
  ELSE IF doc.body.t \in {"absent", "null"} THEN [ok |-> TRUE, v |-> v]
  ELSE IF doc.body.t # "obj" THEN [ok |-> FALSE, v |-> v]
  ELSE LET u == decodeInt(doc.body.updatetime, v.UpdateTime)
       IN  [ok |-> u.ok, v |-> [v EXCEPT !.UpdateTime = u.val]]

\* newResponse: a Response around the http.Response, its other fields zero.
newResponse(code) == [HttpStatus |-> code, Status |-> 0, More |-> FALSE, Offset |-> 0]

\* The last three assignments of Do.
SetMetaHttpStatus(resp, apiResp) ==
  [resp EXCEPT !.Status = IF resp.HttpStatus >= 400 THEN resp.HttpStatus ELSE apiResp.Status,
               !.More = apiResp.More, !.Offset = apiResp.Offset]

SetMetaNoOffset(resp, apiResp) ==
  [resp EXCEPT !.Status = apiResp.Status, !.More = apiResp.More]

SetMetaNoStatus(resp, apiResp) ==
  [resp EXCEPT !.More = apiResp.More, !.Offset = apiResp.Offset]

SetMeta(resp, apiResp) ==
  [resp EXCEPT !.Status = apiResp.Status, !.More = apiResp.More, !.Offset = apiResp.Offset]

\* json.NewDecoder(Body).Decode(&body) into a map[string]interface{}: an empty
\* text gives io.EOF, which Do ignores, and null gives a nil map, so both
\* leave no keys; text that is no JSON, or JSON that is no object, is an error.
ParsedDoc(raw) ==
  IF raw.top = "obj" THEN raw ELSE [raw EXCEPT !.status = Absent, !.body = Absent]

\* The error check after json Decode: io.EOF, the error of an empty text, is
\* let through.
JSONErrorOnEOF(raw) == raw.top \in {"empty", "malformed", "arr", "str", "num", "bool"}

JSONError(raw) == raw.top \in {"malformed", "arr", "str", "num", "bool"}

\* The Response that Do returns when a decode fails: the one newResponse
\* made, the three assignments not having run.
OnDecodeErrorMeta(resp, apiResp) == SetMeta(resp, apiResp)

OnDecodeError(resp, apiResp) == resp

\* Do after BareDo has succeeded: what it returns for the response text raw,
\* the HTTP status code and the target v.
DoResult(raw, code, v) ==
  LET resp == newResponse(code)
      doc == ParsedDoc(raw)
      api == decodeApiResponse(doc)
      tgt == decodeTarget(doc, v)
  IN  IF JSONError(raw) THEN [resp |-> resp, err |-> "json", v |-> v]
      ELSE IF ~api.ok THEN [resp |-> resp, err |-> "mapstructure", v |-> v]
      ELSE IF ~tgt.ok
        THEN [resp |-> OnDecodeError(resp, api), err |-> "mapstructure", v |-> tgt.v]
      ELSE [resp |-> SetMeta(resp, api), err |-> "nil", v |-> tgt.v]

\* Response texts, HTTP status codes and targets tried.
RawBodies ==
  { [top |-> "obj", status |-> st, body |-> b] :
      st \in StatusValues \cup {Absent, Str},
      b \in Bodies \cup {Absent, [t |-> "null", x |-> 0], [t |-> "arr", x |-> 0]} }
  \cup { [top |-> k, status |-> Absent, body |-> Absent] : k \in {"empty", "malformed", "null", "arr"} }

HttpCodes == {200, 500}

Targets == {[nil |-> TRUE, UpdateTime |-> 0], [nil |-> FALSE, UpdateTime |-> 0],
            [nil |-> FALSE, UpdateTime |-> 9]}

\* The deferred resp.HttpResponse.Body.Close() of Do: it runs on every return
\* that follows a successful BareDo, whatever the error.
BodyClosedOnSuccess(err) == err = "nil"

BodyClosed(err) == TRUE

\* What Do leaves in the target when BareDo failed: Do returns before any
\* decode.
TargetOnTransportErrorZeroed(v) == [v EXCEPT !.UpdateTime = 0]

TargetOnTransportError(v) == v

\* Do is called: BareDo sends the request.
DoCall(raw, code, v) ==
  /\ call.pc = "idle"
  /\ call' = [pc |-> "bare", raw |-> raw, code |-> code, v |-> v]
  /\ out' = [pc |-> "none"]
  /\ UNCHANGED <<tokVars, extVars>>

\* BareDo fails: Do returns its nil Response and its error.
DoTransportFail(ctxDone) ==
  /\ call.pc = "bare"
  /\ call' = [call EXCEPT !.pc = "done"]
  /\ out' = [pc |-> "returned", bare |-> FALSE, respNil |-> TRUE, resp |-> newResponse(0),
             err |-> BareDoErr(ctxDone, "transport error"),
             v |-> TargetOnTransportError(call.v), closed |-> FALSE,
             ctxDone |-> ctxDone]
  /\ UNCHANGED <<tokVars, extVars>>

\* BareDo succeeds: Do decodes the body, returns, and the deferred Close runs.
DoDecode ==
  /\ call.pc = "bare"
  /\ call' = [call EXCEPT !.pc = "done"]
  /\ LET r == DoResult(call.raw, call.code, call.v) IN
       out' = [pc |-> "returned", bare |-> TRUE, respNil |-> FALSE, resp |-> r.resp,
               err |-> r.err, v |-> r.v, closed |-> BodyClosed(r.err), ctxDone |-> FALSE]
  /\ UNCHANGED <<tokVars, extVars>>

\* BareDo is called by itself and succeeds: the caller gets the Response
\* with the body still to be read.
BareDoCall(raw, code) ==
  /\ call.pc = "idle"
  /\ call' = [pc |-> "done", raw |-> raw, code |-> code, v |-> [nil |-> TRUE, UpdateTime |-> 0]]
  /\ out' = [pc |-> "bare returned", bare |-> TRUE, respNil |-> FALSE, resp |-> newResponse(code),
             err |-> "nil", v |-> call'.v, closed |-> FALSE, ctxDone |-> FALSE]
  /\ UNCHANGED <<tokVars, extVars>>

NextDo ==
  \/ \E raw \in RawBodies, code \in HttpCodes, v \in Targets : DoCall(raw, code, v)
  \/ \E d \in BOOLEAN : DoTransportFail(d)
  \/ DoDecode
  \/ \E raw \in RawBodies, code \in HttpCodes : BareDoCall(raw, code)

\* Client.Do alone: the token source is left unused.
InitDo == TokInit({0}) /\ DoIdle /\ AuthIdle /\ newClient

SpecDo == InitDo /\ [][NextDo]_vars
\* ------------------------------------------------------- claims on Client.Do
\* A well-formed envelope: an object whose status is an integer and whose
\* body, if any, is an object with a boolean more, an integer offset and an
\* integer updatetime, each possibly absent.
IsInteger(j) == j.t = "num" /\ j.x % 10 = 0

WellFormed(raw) ==
  /\ raw.top = "obj"
  /\ IsInteger(raw.status)
  /\ \/ raw.body.t = "absent"
     \/ /\ raw.body.t = "obj"
        /\ raw.body.more.t \in {"absent", "bool"}
        /\ raw.body.offset.t = "absent" \/ IsInteger(raw.body.offset)
        /\ raw.body.updatetime.t = "absent" \/ IsInteger(raw.body.updatetime)

\* The values the envelope states, absent ones defaulted.
BodyMore(raw) ==
  IF raw.body.t = "obj" /\ raw.body.more.t = "bool" THEN raw.body.more.x ELSE FALSE

BodyOffset(raw) ==
  IF raw.body.t = "obj" /\ raw.body.offset.t = "num" THEN raw.body.offset.x \div 10 ELSE 0

BodyUpdateTime(raw, old) ==
  IF raw.body.t = "obj" /\ raw.body.updatetime.t = "num"
    THEN raw.body.updatetime.x \div 10 ELSE old

\* Do has returned after a successful BareDo, for a non-nil target.
Decoded == out.pc = "returned" /\ out.bare /\ ~call.v.nil

\* C8: for a well-formed envelope with status 0, Do returns no error, the
\* target holds the body's payload, and Response.More and Response.Offset are
\* body.more and body.offset, false and 0 when absent.
C8_Status0 ==
  (Decoded /\ WellFormed(call.raw) /\ call.raw.status.x = 0) =>
     /\ out.err = "nil"
     /\ out.resp.Status = 0
     /\ out.resp.More = BodyMore(call.raw)
     /\ out.resp.Offset = BodyOffset(call.raw)
     /\ out.v.UpdateTime = BodyUpdateTime(call.raw, call.v.UpdateTime)

\* C8 witness: a status-0 envelope with more=true, offset=3 and a payload
\* has been decoded into a target that held something else.
C8_Witness ==
  /\ Decoded /\ WellFormed(call.raw) /\ call.raw.status.x = 0
  /\ call.raw.body.t = "obj"
  /\ out.resp.More /\ out.resp.Offset = 3
  /\ call.v.UpdateTime = 9 /\ out.v.UpdateTime = 2

\* C9: whenever the envelope's status is non-zero, Do returns an error, of
\* the API-error kind.
C9_ApiError ==
  (Decoded /\ WellFormed(call.raw) /\ call.raw.status.x # 0) => out.err = "api error"

\* C10: for a well-formed envelope with a non-zero status, Response.Status is
\* that status and Response.More and Response.Offset are the body's values.
C10_NonZeroStatus ==
  (Decoded /\ WellFormed(call.raw) /\ call.raw.status.x # 0) =>
     /\ out.resp.Status = call.raw.status.x \div 10
     /\ out.resp.Status # 0
     /\ out.resp.More = BodyMore(call.raw)
     /\ out.resp.Offset = BodyOffset(call.raw)

\* C10 witness: an envelope with status 401, more=true and offset=2 has been
\* decoded.
C10_Witness ==
  /\ Decoded /\ WellFormed(call.raw)
  /\ out.resp.Status = 401 /\ out.resp.More /\ out.resp.Offset = 2

\* C11: an empty response text is no error: for a non-nil target Do returns a
\* nil error, leaves the target as it was (zero when it was zero), and the
\* Response has Status 0, More false and Offset 0.
C11_EmptyBody ==
  (Decoded /\ call.raw.top = "empty") =>
     /\ out.err = "nil"
     /\ out.v = call.v
     /\ out.resp.Status = 0 /\ ~out.resp.More /\ out.resp.Offset = 0

\* C11 witness: Do has returned for an empty text and a zero target.
C11_Witness ==
  Decoded /\ call.raw.top = "empty" /\ call.v.UpdateTime = 0 /\ out.v.UpdateTime = 0

\* C12: called with a nil target, Do returns a nil error whenever the
\* transport succeeded and the text parsed as a JSON object whose metadata
\* decodes.
C12_NilTarget ==
  (out.pc = "returned" /\ out.bare /\ call.v.nil /\ ~JSONError(call.raw)
     /\ decodeApiResponse(ParsedDoc(call.raw)).ok) => out.err = "nil"

\* A decode of the response text fails: the text is no JSON object, or a
\* metadata key or the payload has a value of the wrong kind.
BadKind(j, kinds) == j.t \notin (kinds \cup {"absent", "null"})

DecodeFails(raw) ==
  \/ raw.top \in {"malformed", "arr"}
  \/ /\ raw.top = "obj"
     /\ \/ BadKind(raw.status, {"num"})
        \/ BadKind(raw.body, {"obj"})
        \/ /\ raw.body.t = "obj"
           /\ \/ BadKind(raw.body.more, {"bool"})
              \/ BadKind(raw.body.offset, {"num"})
              \/ BadKind(raw.body.updatetime, {"num"})

\* C13: decoding is all-or-nothing for the metadata: when the parse, the
\* metadata decode or the target decode fails, Do returns a non-nil error and
\* a Response whose Status, More and Offset are zero; whenever Do returns an
\* error after the transport succeeded, these three fields are zero.
C13_AllOrNothing ==
  (out.pc = "returned" /\ out.bare) =>
     /\ (DecodeFails(call.raw) \/ call.v.nil) => out.err # "nil"
     /\ out.err # "nil" =>
          (out.resp.Status = 0 /\ ~out.resp.More /\ out.resp.Offset = 0)

\* C13 witness: the metadata decoded (status 401, more=true, offset=2) and the
\* target decode then failed on the payload.
C13_Witness ==
  /\ Decoded /\ call.raw.top = "obj"
  /\ call.raw.status = Num(4010) /\ call.raw.body.t = "obj"
  /\ call.raw.body.more = [t |-> "bool", x |-> TRUE] /\ call.raw.body.offset = Num(20)
  /\ call.raw.body.updatetime = Str
  /\ out.err = "mapstructure"

\* C14: when the transport fails, the error returned is the request
\* context's when that context is done and the transport's own otherwise, and
\* the Response is nil in both cases.
C14_TransportFailure ==
  (out.pc = "returned" /\ ~out.bare) =>
     /\ out.respNil
     /\ out.err = (IF out.ctxDone THEN "context.Canceled" ELSE "transport error")

\* C14 witness: the transport failed while the context was not done, and the
\* transport's error came back with a nil Response.
C14_Witness ==
  out.pc = "returned" /\ ~out.bare /\ ~out.ctxDone /\ out.respNil
    /\ out.err = "transport error"

\* C26: what Do returns (error, Status, More, Offset and the decoded target)
\* does not depend on the HTTP status code: for the same response text and
\* target it is the same under every status code.
C26_HttpStatusIrrelevant ==
  (out.pc = "returned" /\ out.bare) =>
    \A code \in HttpCodes :
      LET other == DoResult(call.raw, code, call.v) IN
      /\ out.err = other.err
      /\ out.resp.Status = other.resp.Status
      /\ out.resp.More = other.resp.More
      /\ out.resp.Offset = other.resp.Offset
      /\ out.v = other.v

\* C26 witness: a response with HTTP status 500 and a status-0 envelope was
\* decoded without error.
C26_Witness ==
  /\ Decoded /\ call.code = 500 /\ WellFormed(call.raw) /\ call.raw.body.t = "obj"
  /\ out.err = "nil" /\ out.resp.Status = 0 /\ out.resp.More /\ out.v.UpdateTime = 2

\* C27: whenever BareDo succeeded inside Do, the response body is closed
\* when Do has returned, with or without a decode error; a BareDo called by
\* itself returns the Response with the body open.
C27_BodyClosed ==
  /\ (out.pc = "returned" /\ out.bare) => out.closed
  /\ out.pc = "bare returned" => (~out.closed /\ ~out.respNil /\ out.err = "nil")

\* C27 witness: Do has returned a decode error and the body is closed.
C27_Witness ==
  out.pc = "returned" /\ out.bare /\ out.err = "mapstructure" /\ out.closed

\* C28: when the transport fails, Do returns a nil Response and the
\* transport's (or the context's) error, nothing is decoded, no body is
\* closed, and the target is as the caller handed it in.
C28_TransportFailureFrame ==
  (out.pc = "returned" /\ ~out.bare) =>
    /\ out.respNil
    /\ out.err \in {"transport error", "context.Canceled"}
    /\ out.v = call.v
    /\ ~out.closed

\* C28 witness: the transport failed for a call whose target held a value,
\* and the target still holds it.
C28_Witness ==
  /\ out.pc = "returned" /\ ~out.bare /\ out.respNil
  /\ ~call.v.nil /\ call.v.UpdateTime = 9 /\ out.v.UpdateTime = 9

\* ================================================ Part 3: Config.AuthCodeURL
\* A text is a sequence of pieces, so that a separator is a piece of its own:
\* "a,b" is <<"a", ",", "b">>.  A query is what url.Values.Encode writes: a
\* sequence of [key, value] pairs, the value escaped.
MaxScopes == 2

MaxOpts == 2

\* Scopes the Withings API knows, as Config.Scopes may list them.
ScopeNames == {"user.info", "user.metrics", "user.activity"}

\* The state argument of AuthCodeURL (0 is "").
States == {0, 3}

\* Config.ClientID.
ClientID == <<"client-id">>

\* The text of a string modelled as a natural.
Text(n) == <<ToString(n)>>

SeqsUpTo(S, n) == UNION {[1..k -> S] : k \in 0..n}

\* strings.Join.
RECURSIVE Join(_, _)
Join(elems, sep) ==
  IF Len(elems) = 0 THEN <<>>
  ELSE IF Len(elems) = 1 THEN <<elems[1]>>
  ELSE <<elems[1], sep>> \o Join(Tail(elems), sep)

\* oauth2.SetAuthURLParam: an option that sets one query parameter.
SetAuthURLParam(key, value) == [key |-> key, value |-> value]

ModeDemo == SetAuthURLParam("mode", <<"demo">>)

\* The options tried: ModeDemo, oauth2.AccessTypeOffline, and options a caller
\* makes with SetAuthURLParam for a parameter the URL already has.
AuthCodeOptions ==
  {ModeDemo, SetAuthURLParam("access_type", <<"offline">>),
   SetAuthURLParam("state", Text(9)), SetAuthURLParam("redirect_uri", Text(8)),
   SetAuthURLParam("scope", <<"user.sleepevents">>)}

\* The parameter names, in the order url.Values.Encode writes them (sorted).
QueryKeys ==
  <<"access_type", "client_id", "mode", "redirect_uri", "response_type", "scope", "state">>

\* url.Values: per key the list of its values.
NoValues == [k \in {QueryKeys[i] : i \in 1..Len(QueryKeys)} |-> <<>>]

\* url.Values.Set replaces the values of key by one value.
ValuesSet(v, key, value) == [v EXCEPT ![key] = <<value>>]

\* The options applied in order (opt.setValue(v) for each).
RECURSIVE setValues(_, _)
setValues(v, opts) ==
  IF Len(opts) = 0 THEN v
  ELSE setValues(ValuesSet(v, opts[1].key, opts[1].value), Tail(opts))

\* url.QueryEscape and url.QueryUnescape on the pieces that need it.
QueryEscape(text) ==
  [i \in 1..Len(text) |->
     CASE text[i] = "," -> "%2C" [] text[i] = " " -> "+" [] OTHER -> text[i]]

QueryUnescape(text) ==
  [i \in 1..Len(text) |->
     CASE text[i] = "%2C" -> "," [] text[i] \in {"+", "%20"} -> " " [] OTHER -> text[i]]

\* url.Values.Encode from the i-th key on.
RECURSIVE Encode(_, _)
Encode(v, i) ==
  IF i > Len(QueryKeys) THEN <<>>
  ELSE [j \in 1..Len(v[QueryKeys[i]]) |->
          [key |-> QueryKeys[i], value |-> QueryEscape(v[QueryKeys[i]][j])]]
       \o Encode(v, i + 1)

\* AuthCodeURL of golang.org/x/oauth2, which the wrapper calls: the query of
\* the URL it returns.
oauth2AuthCodeURL(redirect, Scopes, state, opts) ==
  LET v1 == ValuesSet(ValuesSet(NoValues, "response_type", <<"code">>), "client_id", ClientID)
      v2 == IF redirect # 0 THEN ValuesSet(v1, "redirect_uri", Text(redirect)) ELSE v1
      v3 == IF Len(Scopes) > 0 THEN ValuesSet(v2, "scope", Join(Scopes, " ")) ELSE v2
      v4 == IF state # 0 THEN ValuesSet(v3, "state", Text(state)) ELSE v3
  IN  Encode(setValues(v4, opts), 1)

\* The options the wrapper hands on: its own scope option first.
ScopeOptionNone(Scopes, opts) == opts

ScopeOptionAppended(Scopes, opts) ==
  IF Len(Scopes) > 0 THEN opts \o <<SetAuthURLParam("scope", Join(Scopes, ","))>> ELSE opts

ScopeOption(Scopes, opts) ==
  IF Len(Scopes) > 0 THEN <<SetAuthURLParam("scope", Join(Scopes, ","))>> \o opts ELSE opts

\* Config.AuthCodeURL of the Withings extension.
AuthCodeURL(redirect, Scopes, state, opts) ==
  oauth2AuthCodeURL(redirect, Scopes, state, ScopeOption(Scopes, opts))

\* AuthCodeURL is called and returns.
AuthCodeURLCall(Scopes, state, opts) ==
  /\ auth.pc = "idle"
  /\ auth' = [pc |-> "done", Scopes |-> Scopes, state |-> state, opts |-> opts,
              url |-> AuthCodeURL(RedirectURL, Scopes, state, opts)]
  /\ UNCHANGED <<tokVars, call, out, client, calls, rq>>

NextURL ==
  \E Scopes \in SeqsUpTo(ScopeNames, MaxScopes), state \in States,
     opts \in SeqsUpTo(AuthCodeOptions, MaxOpts) : AuthCodeURLCall(Scopes, state, opts)

SpecURL == Init /\ [][NextURL]_vars

\* ============================================ Part 4: calls through a Client
\* The last page the server holds (pages are numbered from 0) and the number
\* of calls one goroutine makes one after the other.
MaxPage == 2

MaxCalls == 3

\* Client.BaseURL.Path values tried, as sequences of pieces: "/" (both
\* endpoints), "" and "/v2" (no trailing slash), "/v2/".
BaseURLPaths == {<<"/">>, <<>>, <<"/", "v2">>, <<"/", "v2", "/">>}

\* The list calls of MeasureService and the values of opts.Offset tried.
Kinds == {"getmeas", "getactivity", "getintradayactivity", "getworkouts"}

OffsetInputs == (-1)..MaxPage

\* strings.HasSuffix(path, "/").
HasSuffix(path, piece) == Len(path) > 0 /\ path[Len(path)] = piece

\* The error of NewRequest for a Client c (the relative URLs of the resource
\* calls are constants that parse).
NewRequestErrNone(c) == "nil"

NewRequestErr(c) ==
  IF ~HasSuffix(c.BaseURLPath, "/") THEN "BaseURL must have a trailing slash" ELSE "nil"

\* The form a list call posts, as far as pagination goes: Getmeas, Getactivity
\* and Getworkouts add offset when opts.Offset > 0, Getintradayactivity has no
\* such statement.
FormOffsetFromZero(kind, opts) ==
  [action |-> kind,
   offset |-> IF kind # "getintradayactivity" /\ opts.Offset >= 0 THEN <<opts.Offset>> ELSE <<>>]

Form(kind, opts) ==
  [action |-> kind,
   offset |-> IF kind # "getintradayactivity" /\ opts.Offset > 0 THEN <<opts.Offset>> ELSE <<>>]

\* The target a resource call allocates (new(getmeasResponse)).
NewTarget == [nil |-> FALSE, UpdateTime |-> 0]

NoBody == [top |-> "none", status |-> Absent, body |-> Absent]

NoPrev == [any |-> FALSE, kind |-> "", ok |-> FALSE, More |-> FALSE, Offset |-> 0, page |-> 0]

\* The server, as the Response type describes it: the page asked for (the
\* first one without an offset), more while pages remain, and then the offset
\* of the next page.  The payload's updatetime tells the pages apart: page p
\* carries p + 1.
ServerPage(form) ==
  LET p == IF form.offset = <<>> THEN 0 ELSE form.offset[1]
      more == p < MaxPage
  IN  [top |-> "obj", status |-> Num(0),
       body |-> [t |-> "obj", more |-> [t |-> "bool", x |-> more],
                 offset |-> IF more THEN Num(10 * (p + 1)) ELSE Absent,
                 updatetime |-> Num(10 * (p + 1))]]

\* What the server may answer: the page, an error envelope, or no JSON.
Answers(form) ==
  {[raw |-> ServerPage(form), code |-> 200],
   [raw |-> [top |-> "obj", status |-> Num(4010), body |-> Absent], code |-> 200],
   [raw |-> [top |-> "malformed", status |-> Absent, body |-> Absent], code |-> 500]}

\* A resource call starts in goroutine g: the form is built, PostForm calls
\* NewRequest and, if that succeeds, Do, whose BareDo hands the request to
\* the http.Client and waits.
StartCall(g, kind, offset, n, prev) ==
  LET opts == [Offset |-> offset]
      e == NewRequestErr(client)
      c == [pc |-> "wait", kind |-> kind, opts |-> opts, form |-> Form(kind, opts),
            conc |-> \E h \in Goroutines \ {g} : calls[h].pc \in {"wait", "recv"},
            requests |-> 1, raw |-> NoBody, code |-> 0, bare |-> FALSE, respNil |-> TRUE,
            resp |-> newResponse(0), err |-> "nil", v |-> NewTarget, ctxDone |-> FALSE,
            n |-> n, prev |-> prev]
  IN  /\ calls' = [calls EXCEPT ![g] =
                     IF e # "nil" THEN [c EXCEPT !.pc = "returned", !.requests = 0, !.err = e]
                     ELSE c]
      /\ UNCHANGED <<tokVars, call, out, auth, client, rq>>

ResourceCall(g, kind, offset) ==
  /\ calls[g].pc = "idle"
  /\ StartCall(g, kind, offset, 1, NoPrev)

\* The goroutine calls again after a call has returned.
NextCall(g, kind, offset) ==
  /\ calls[g].pc = "returned"
  /\ calls[g].n < MaxCalls
  /\ StartCall(g, kind, offset, calls[g].n + 1,
               [any |-> TRUE, kind |-> calls[g].kind, ok |-> calls[g].err = "nil",
                More |-> calls[g].resp.More, Offset |-> calls[g].resp.Offset,
                page |-> calls[g].v.UpdateTime - 1])

\* The server answers the request of g: BareDo returns the response.
Respond(g) ==
  /\ calls[g].pc = "wait"
  /\ \E ans \in Answers(calls[g].form) :
       calls' = [calls EXCEPT ![g] = [@ EXCEPT !.pc = "recv", !.raw = ans.raw, !.code = ans.code,
                                                !.bare = TRUE, !.respNil = FALSE]]
  /\ UNCHANGED <<tokVars, call, out, auth, client, rq>>

\* What a failed c.client.Do makes of the call: BareDo, Do and PostForm
\* return its error.
OnTransportErrorRetry(c, ctxDone) == [c EXCEPT !.requests = @ + 1]

OnTransportError(c, ctxDone) ==
  [c EXCEPT !.pc = "returned", !.err = BareDoErr(ctxDone, "transport error"),
            !.ctxDone = ctxDone]

\* The transport fails for the request of g.
TransportFail(g, ctxDone) ==
  /\ calls[g].pc = "wait"
  /\ calls' = [calls EXCEPT ![g] = OnTransportError(@, ctxDone)]
  /\ UNCHANGED <<tokVars, call, out, auth, client, rq>>

\* The response text Do decodes in goroutine g: a local of that call.
BodyReadShared(g) ==
  IF \E h \in Goroutines \ {g} : calls[h].pc \in {"recv", "returned"} /\ calls[h].bare
    THEN calls[CHOOSE h \in Goroutines \ {g} : calls[h].pc \in {"recv", "returned"} /\ calls[h].bare].raw
    ELSE calls[g].raw

BodyRead(g) == calls[g].raw

\* Do decodes the response in goroutine g and the call returns.
Decode(g) ==
  /\ calls[g].pc = "recv"
  /\ LET r == DoResult(BodyRead(g), calls[g].code, calls[g].v) IN
       calls' = [calls EXCEPT ![g] = [@ EXCEPT !.pc = "returned", !.resp = r.resp,
                                                !.err = r.err, !.v = r.v]]
  /\ UNCHANGED <<tokVars, call, out, auth, client, rq>>

\* A Client whose BaseURL is the endpoint's or one the caller has set.
InitClient ==
  /\ TokInit({0}) /\ DoIdle /\ AuthIdle
  /\ client \in [BaseURLPath : BaseURLPaths, UserAgent : {1}]
  /\ calls = [g \in Goroutines |-> [pc |-> "idle"]]

\* Goroutines sharing the Client, one call each.
NextClient ==
  \E g \in Goroutines :
    \/ \E kind \in Kinds, offset \in OffsetInputs : ResourceCall(g, kind, offset)
    \/ Respond(g)
    \/ \E d \in BOOLEAN : TransportFail(g, d)
    \/ Decode(g)

SpecClient == InitClient /\ [][NextClient]_vars

\* One goroutine calling page after page.
NextPages ==
  \/ \E kind \in Kinds, offset \in OffsetInputs : ResourceCall("g1", kind, offset)
  \/ \E kind \in Kinds, offset \in OffsetInputs : NextCall("g1", kind, offset)
  \/ Respond("g1")
  \/ \E d \in BOOLEAN : TransportFail("g1", d)
  \/ Decode("g1")

SpecPages == InitClient /\ [][NextPages]_vars

\* ------------------------------------------------------ claims on AuthCodeURL
\* What a server reading the query finds for a key: its values, unescaped;
\* and the same values as the URL's text carries them.
RawParam(url, k) == SelectSeq(url, LAMBDA p : p.key = k)

Param(url, k) ==
  LET raw == RawParam(url, k) IN [i \in 1..Len(raw) |-> QueryUnescape(raw[i].value)]

\* The values of the options that name key k, in the order given.
OptValues(opts, k) ==
  LET named == SelectSeq(opts, LAMBDA o : o.key = k) IN [i \in 1..Len(named) |-> named[i].value]

\* text is the elements of elems in their order with sep between them.
IsJoined(text, elems, sep) ==
  /\ Len(text) = 2 * Len(elems) - 1
  /\ \A i \in 1..Len(elems) : text[2 * i - 1] = elems[i]
  /\ \A i \in 1..(Len(elems) - 1) : text[2 * i] = sep

StandardKeys == {"client_id", "redirect_uri", "response_type", "state", "scope"}

\* The URL the same call gives without options.
WithoutOptions == AuthCodeURL(RedirectURL, auth.Scopes, auth.state, <<>>)

\* C17 as stated: whatever the options, client_id, redirect_uri,
\* response_type, state and scope are as in the URL built without them.
C17_Original ==
  auth.pc = "done" =>
    \A k \in StandardKeys : Param(auth.url, k) = Param(WithoutOptions, k)

\* C17: every option adds its own parameter, the last option naming a
\* parameter giving its value; client_id, redirect_uri, response_type, state
\* and scope are as in the URL built without options unless an option names
\* that very parameter, in which case the option's value replaces it (for
\* scope: replaces the comma-joined list).
C17_OptionsFrame ==
  auth.pc = "done" =>
    \A i \in 1..Len(QueryKeys) :
      LET k == QueryKeys[i]
          named == OptValues(auth.opts, k)
      IN  IF named = <<>> THEN (k \in StandardKeys => Param(auth.url, k) = Param(WithoutOptions, k))
                               /\ (k \notin StandardKeys => Param(auth.url, k) = <<>>)
          ELSE Param(auth.url, k) = <<named[Len(named)]>>

\* C17 witness: ModeDemo and an option naming scope were passed to a
\* configuration with scopes, a redirect URL and a state.
C17_Witness ==
  /\ auth.pc = "done" /\ Len(auth.Scopes) = 2 /\ auth.state = 3 /\ RedirectURL = 5
  /\ auth.opts = <<ModeDemo, SetAuthURLParam("scope", <<"user.sleepevents">>)>>
  /\ Param(auth.url, "mode") = << <<"demo">> >>
  /\ Param(auth.url, "state") = << <<"3">> >>

\* ------------------------------------------- claims on calls through a Client
\* Goroutine g has called and its call has got as far as NewRequest.
Called(g) == calls[g].pc # "idle"

Returned(g) == calls[g].pc = "returned"

\* C15: when the path of the Client's BaseURL does not end in "/", every
\* resource call returns the configuration error of NewRequest with a nil
\* Response, and no HTTP request is issued.
C15_TrailingSlash ==
  (client.BaseURLPath = <<>> \/ client.BaseURLPath[Len(client.BaseURLPath)] # "/") =>
    \A g \in Goroutines : Called(g) =>
       /\ Returned(g)
       /\ calls[g].err = "BaseURL must have a trailing slash"
       /\ calls[g].respNil
       /\ calls[g].requests = 0

\* C15 witness: with BaseURL path "/v2" both goroutines' calls have returned.
C15_Witness ==
  /\ client.BaseURLPath = <<"/", "v2">>
  /\ \A g \in Goroutines : Returned(g) /\ calls[g].requests = 0 /\ calls[g].err # "nil"

\* The page a successful call has decoded (the payload tells the pages apart).
GotPage(c) == c.pc = "returned" /\ c.err = "nil" /\ c.resp.Status = 0

PageOf(c) == c.v.UpdateTime - 1

\* The call c follows the cursor of the same goroutine's previous call: that
\* call, of the same kind, returned more=true, and opts.Offset is the offset
\* it returned.
FollowsCursor(c) ==
  /\ c.pc # "idle" /\ c.requests = 1
  /\ c.prev.any /\ c.prev.ok /\ c.prev.kind = c.kind /\ c.prev.More
  /\ c.opts.Offset = c.prev.Offset

\* The offset is sent and the page after the previous one comes back.
NextPageServed(c) ==
  /\ c.form.offset = <<c.prev.Offset>>
  /\ GotPage(c) => (PageOf(c) = c.prev.page + 1 /\ PageOf(c) # 0)

\* C18 as stated: whichever the list call, following the cursor sends the
\* returned offset and yields the next page.
C18_Original ==
  \A g \in Goroutines : FollowsCursor(calls[g]) => NextPageServed(calls[g])

\* C18: for Getmeas, Getactivity and Getworkouts, following the cursor sends
\* the returned offset and yields the next page, never the first one again;
\* a call with opts.Offset zero sends no offset and reads the first page;
\* Getintradayactivity never sends an offset.
C18_Pagination ==
  \A g \in Goroutines :
    LET c == calls[g] IN
    (c.pc # "idle" /\ c.requests = 1) =>
      /\ (FollowsCursor(c) /\ c.kind # "getintradayactivity") => NextPageServed(c)
      /\ c.opts.Offset = 0 => (c.form.offset = <<>> /\ (GotPage(c) => PageOf(c) = 0))
      /\ c.kind = "getintradayactivity" => c.form.offset = <<>>

\* C18 witness: a third Getmeas call, following the cursor of the second,
\* has read the last page.
C18_Witness ==
  LET c == calls["g1"] IN
  /\ c.pc = "returned" /\ c.n = 3 /\ c.kind = "getmeas" /\ FollowsCursor(c)
  /\ c.prev.page = 1 /\ GotPage(c) /\ PageOf(c) = 2 /\ ~c.resp.More

\* C19: one call hands at most one request to the http.Client, whatever its
\* outcome: none when NewRequest fails, one otherwise.
C19_NoRetry ==
  \A g \in Goroutines : Called(g) =>
     /\ calls[g].requests <= 1
     /\ (Returned(g) /\ calls[g].err \in {"transport error", "context.Canceled", "json"})
          => calls[g].requests = 1
     /\ (Returned(g) /\ calls[g].resp.Status # 0) => calls[g].requests = 1

\* C19 witness: one call has returned a transport error and the other a
\* decode error, each after one request.
C19_Witness ==
  /\ Returned("g1") /\ calls["g1"].err = "transport error" /\ calls["g1"].requests = 1
  /\ Returned("g2") /\ calls["g2"].err = "json" /\ calls["g2"].requests = 1

\* What the response text raw alone determines for a zero target.
Determined(c) ==
  IF WellFormed(c.raw)
    THEN /\ c.err = "nil"
         /\ c.resp.Status = c.raw.status.x \div 10
         /\ c.resp.More = BodyMore(c.raw)
         /\ c.resp.Offset = BodyOffset(c.raw)
         /\ c.v.UpdateTime = BodyUpdateTime(c.raw, 0)
    ELSE /\ c.err = "json"
         /\ c.resp.Status = 0 /\ ~c.resp.More /\ c.resp.Offset = 0
         /\ c.v = NewTarget

\* C20: under every interleaving of the goroutines' calls, what a call
\* returns after its response arrived (Status, More, Offset and the decoded
\* target) is what its own response text determines, and no step changes the
\* Client.
C20_Independent ==
  /\ [](\A g \in Goroutines : (Returned(g) /\ calls[g].bare) => Determined(calls[g]))
  /\ [][client' = client]_vars

\* C20 witness: two calls were under way at once, got different response
\* texts, and both have returned.
C20_Witness ==
  /\ Returned("g1") /\ Returned("g2") /\ calls["g1"].bare /\ calls["g2"].bare
  /\ calls["g2"].conc
  /\ calls["g1"].raw # calls["g2"].raw
  /\ calls["g1"].resp.More /\ calls["g2"].resp.Status = 401

\* ============================================ Part 5: MeasureService requests
\* The enumerated types: per type the keys of its valid...Values map, the
\* list its All... function returns, and IsValid, a lookup in the map.
validMeasureTypeValues ==
  {1, 4, 5, 6, 8, 9, 10, 11, 12, 54, 71, 73, 76, 77, 88, 91, 123, 135, 136,
   137, 138, 139}

AllMeasureTypes ==
  <<1, 4, 5, 6, 8, 9, 10, 11, 12, 54, 71, 73, 76, 77, 88, 91, 123, 135, 136,
   137, 138, 139>>

validActivityFieldValues ==
  {"steps", "distance", "elevation", "soft", "moderate", "intense", "active",
   "calories", "totalcalories", "hr_average", "hr_min", "hr_max",
   "hr_zone_0", "hr_zone_1", "hr_zone_2", "hr_zone_3"}

AllActivityFields ==
  <<"steps", "distance", "elevation", "soft", "moderate", "intense",
   "active", "calories", "totalcalories", "hr_average", "hr_min", "hr_max",
   "hr_zone_0", "hr_zone_1", "hr_zone_2", "hr_zone_3">>

validIntradayActivityFieldValues ==
  {"steps", "elevation", "calories", "distance", "stroke", "pool_lap",
   "duration", "heart_rate", "spo2_auto"}

AllIntradayActivityFields ==
  <<"steps", "elevation", "calories", "distance", "stroke", "pool_lap",
   "duration", "heart_rate", "spo2_auto">>

validWorkoutFieldValues ==
  {"calories", "intensity", "manual_distance", "manual_calories",
   "hr_average", "hr_min", "hr_max", "hr_zone_0", "hr_zone_1", "hr_zone_2",
   "hr_zone_3", "pause_duration", "algo_pause_duration", "spo2_average",
   "steps", "distance", "elevation", "pool_laps", "strokes", "pool_length"}

AllWorkoutFields ==
  <<"calories", "intensity", "manual_distance", "manual_calories",
   "hr_average", "hr_min", "hr_max", "hr_zone_0", "hr_zone_1", "hr_zone_2",
   "hr_zone_3", "pause_duration", "algo_pause_duration", "spo2_average",
   "steps", "distance", "elevation", "pool_laps", "strokes", "pool_length">>

validMeasureCategoryValues == {1, 2}

MeasureTypeIsValid(v) == v \in validMeasureTypeValues

MeasureCategoryIsValid(v) == v \in validMeasureCategoryValues

ActivityFieldIsValid(v) == v \in validActivityFieldValues

IntradayActivityFieldIsValid(v) == v \in validIntradayActivityFieldValues

WorkoutFieldIsValidAsActivity(v) == v \in validActivityFieldValues

WorkoutFieldIsValid(v) == v \in validWorkoutFieldValues

\* The enumerated types by name; MeasureType and MeasureCategory are ints,
\* the field types are strings.
IntTypes == {"MeasureType", "MeasureCategory"}

FieldTypes == {"ActivityField", "IntradayActivityField", "WorkoutField"}

IsValid(type, v) ==
  CASE type = "MeasureType" -> MeasureTypeIsValid(v)
    [] type = "MeasureCategory" -> MeasureCategoryIsValid(v)
    [] type = "ActivityField" -> ActivityFieldIsValid(v)
    [] type = "IntradayActivityField" -> IntradayActivityFieldIsValid(v)
    [] type = "WorkoutField" -> WorkoutFieldIsValid(v)

\* The values IsValid is tried on: every int from -1 to MaxTypeValue, and
\* every string that is a field of some type, besides strings that are none.
MaxTypeValue == 140

IntValuesTried == (-1)..MaxTypeValue

FieldsTried ==
  validActivityFieldValues \cup validIntradayActivityFieldValues
    \cup validWorkoutFieldValues \cup {"", "Steps", "hr_zone_4", "weight"}

\* v.IsValid() is called.
IsValidCall(type, v) ==
  /\ rq.pc = "idle"
  /\ rq' = [pc |-> "isvalid", type |-> type, v |-> v, ok |-> IsValid(type, v)]
  /\ UNCHANGED <<tokVars, call, out, auth, client, calls>>

\* ---------------------------------------------------------- request building
\* The longest list of measure types or fields handed to a call.
MaxFields == 3

\* Measure types, categories and fields handed to the calls, valid ones and
\* others, and the times (0 is the zero time.Time; t \div 10 is the day) and
\* offsets of MeasureGetOptions.
MeasureTypesTried == {1, 4, 0, 2}

CategoriesTried == {0, 1, 2, 3}

FieldsOf(kind) ==
  CASE kind = "getactivity" -> {"steps", "hr_min", "stroke", ""}
    [] kind = "getintradayactivity" -> {"steps", "stroke", "hr_min", "Steps"}
    [] kind = "getworkouts" -> {"calories", "strokes", "stroke", "soft"}

Times == {0, 13, 25}

MeasureGetOptions ==
  [StartDate : Times \ {25}, EndDate : Times \ {13}, LastUpdate : {0, 25}, Offset : {0, 2}]

\* filterValid...Values: the valid values in their order.
filterValidNone(type, values) == values

filterValid(type, values) == SelectSeq(values, LAMBDA v : IsValid(type, v))

\* fmt.Sprintf("%d", n), t.Unix() printed, and t.Format("2006-01-02").
Unix(t) == <<"unix", ToString(t)>>

Ymd(t) == <<"ymd", ToString(t \div 10)>>

\* measureTypesToString.
measureTypesToString(measureTypes) == [i \in 1..Len(measureTypes) |-> ToString(measureTypes[i])]

\* url.Values.Add: one more value for key.
Add(v, key, value) ==
  IF key \in DOMAIN v THEN [v EXCEPT ![key] = Append(@, value)] ELSE v @@ (key :> <<value>>)

\* The meastype / meastypes statement of Getmeas.
TypesParamAlwaysList(form, measureTypes) ==
  Add(form, "meastypes", Join(measureTypesToString(measureTypes), ","))

TypesParam(form, measureTypes) ==
  IF Len(measureTypes) = 1 THEN Add(form, "meastype", Text(measureTypes[1]))
  ELSE Add(form, "meastypes", Join(measureTypesToString(measureTypes), ","))

\* The lastupdate / date range statement of Getmeas (Unix seconds) and of
\* Getactivity and Getworkouts (startdateymd, enddateymd).
DateParamsBoth(form, kind, opts) ==
  LET f == IF opts.LastUpdate # 0 THEN Add(form, "lastupdate", Unix(opts.LastUpdate)) ELSE form
  IN  IF opts.StartDate # 0 /\ opts.EndDate # 0
        THEN IF kind = "getmeas"
               THEN Add(Add(f, "startdate", Unix(opts.StartDate)), "enddate", Unix(opts.EndDate))
               ELSE Add(Add(f, "startdateymd", Ymd(opts.StartDate)), "enddateymd", Ymd(opts.EndDate))
        ELSE f

DateParams(form, kind, opts) ==
  IF opts.LastUpdate # 0 THEN Add(form, "lastupdate", Unix(opts.LastUpdate))
  ELSE IF opts.StartDate # 0 /\ opts.EndDate # 0
    THEN IF kind = "getmeas"
           THEN Add(Add(form, "startdate", Unix(opts.StartDate)), "enddate", Unix(opts.EndDate))
           ELSE Add(Add(form, "startdateymd", Ymd(opts.StartDate)), "enddateymd", Ymd(opts.EndDate))
    ELSE form

\* The offset statement, as Form has it.
OffsetParam(form, kind, opts) ==
  IF Form(kind, opts).offset # <<>> THEN Add(form, "offset", Text(opts.Offset)) ELSE form

\* The form of Getmeas for the filtered measure types.
GetmeasForm(measureTypes, category, opts) ==
  OffsetParam(
    DateParams(
      TypesParam(("action" :> << <<"getmeas">> >>) @@ ("category" :> <<Text(category)>>),
                 measureTypes),
      "getmeas", opts),
    "getmeas", opts)

\* The form of Getactivity and of Getworkouts for the filtered fields.
FieldsForm(kind, fields, opts) ==
  OffsetParam(
    DateParams(("action" :> << <<kind>> >>) @@ ("data_fields" :> <<Join(fields, ",")>>),
               kind, opts),
    kind, opts)

\* The form of Getintradayactivity for the filtered fields.
IntradayFormAsActivity(fields, opts) == FieldsForm("getintradayactivity", fields, opts)

IntradayForm(fields, opts) ==
  LET form == ("action" :> << <<"getintradayactivity">> >>)
                @@ ("data_fields" :> <<Join(fields, ",")>>)
  IN  IF opts.StartDate # 0 /\ opts.EndDate # 0
        THEN Add(Add(form, "startdate", Unix(opts.StartDate)), "enddate", Unix(opts.EndDate))
        ELSE form

\* What a call returns without a request, and what it hands to PostForm.
Rejected(err) == [posted |-> FALSE, err |-> err, dataNil |-> TRUE, respNil |-> TRUE, form |-> <<>>]

Posted(form) == [posted |-> TRUE, err |-> "nil", dataNil |-> FALSE, respNil |-> FALSE, form |-> form]

Getmeas(measureTypes, category, opts) ==
  IF ~MeasureCategoryIsValid(category) THEN Rejected("invalid category")
  ELSE LET valid == filterValid("MeasureType", measureTypes)
       IN  IF Len(valid) = 0 THEN Rejected("need at least one measure type")
           ELSE Posted(GetmeasForm(valid, category, opts))

Getactivity(fields, opts) ==
  LET valid == filterValid("ActivityField", fields)
  IN  IF Len(valid) = 0 THEN Rejected("need at least one activity field")
      ELSE Posted(FieldsForm("getactivity", valid, opts))

Getintradayactivity(fields, opts) ==
  LET valid == filterValid("IntradayActivityField", fields)
  IN  IF Len(valid) = 0 THEN Rejected("need at least one intraday activity data field")
      ELSE Posted(IntradayForm(valid, opts))

Getworkouts(fields, opts) ==
  LET valid == filterValid("WorkoutField", fields)
  IN  IF Len(valid) = 0 THEN Rejected("need at least one workout data field")
      ELSE Posted(FieldsForm("getworkouts", valid, opts))

\* A call of MeasureService up to PostForm.
GetmeasCall(measureTypes, category, opts) ==
  /\ rq.pc = "idle"
  /\ rq' = [pc |-> "done", kind |-> "getmeas", type |-> "MeasureType", values |-> measureTypes,
            category |-> category, opts |-> opts, r |-> Getmeas(measureTypes, category, opts)]
  /\ UNCHANGED <<tokVars, call, out, auth, client, calls>>

FieldsCall(kind, fields, opts) ==
  /\ rq.pc = "idle"
  /\ rq' = [pc |-> "done", kind |-> kind,
            type |-> CASE kind = "getactivity" -> "ActivityField"
                       [] kind = "getintradayactivity" -> "IntradayActivityField"
                       [] kind = "getworkouts" -> "WorkoutField",
            values |-> fields, category |-> 0, opts |-> opts,
            r |-> CASE kind = "getactivity" -> Getactivity(fields, opts)
                    [] kind = "getintradayactivity" -> Getintradayactivity(fields, opts)
                    [] kind = "getworkouts" -> Getworkouts(fields, opts)]
  /\ UNCHANGED <<tokVars, call, out, auth, client, calls>>

NextMeasure ==
  \/ \E v \in IntValuesTried, type \in IntTypes : IsValidCall(type, v)
  \/ \E v \in FieldsTried, type \in FieldTypes : IsValidCall(type, v)
  \/ \E measureTypes \in SeqsUpTo(MeasureTypesTried, MaxFields), category \in CategoriesTried,
        opts \in MeasureGetOptions : GetmeasCall(measureTypes, category, opts)
  \/ \E kind \in Kinds \ {"getmeas"}, opts \in MeasureGetOptions :
        \E fields \in SeqsUpTo(FieldsOf(kind), MaxFields) : FieldsCall(kind, fields, opts)

SpecMeasure == InitDo /\ [][NextMeasure]_vars

\* -------------------------------------------- claims on MeasureService requests
InList(list, v) == \E i \in 1..Len(list) : list[i] = v

\* The list the All... function of a type returns; the two declared
\* categories for MeasureCategory.
AllOf(type) ==
  CASE type = "MeasureType" -> AllMeasureTypes
    [] type = "MeasureCategory" -> <<1, 2>>
    [] type = "ActivityField" -> AllActivityFields
    [] type = "IntradayActivityField" -> AllIntradayActivityFields
    [] type = "WorkoutField" -> AllWorkoutFields

\* C23: for MeasureType, ActivityField, IntradayActivityField and
\* WorkoutField, IsValid(v) holds exactly for the values in the list the
\* type's All... function returns; for MeasureCategory exactly for 1 and 2.
C23_IsValid ==
  rq.pc = "isvalid" => (rq.ok <=> InList(AllOf(rq.type), rq.v))

\* C23 witness: "soft", an ActivityField, has been found to be no
\* WorkoutField.
C23_Witness ==
  rq.pc = "isvalid" /\ rq.type = "WorkoutField" /\ rq.v = "soft" /\ ~rq.ok

\* The valid ones among the values handed to the call, in their order, as
\* the strings the form carries.
ValidOnly(type, values) == SelectSeq(values, LAMBDA v : InList(AllOf(type), v))

AsStrings(type, values) ==
  IF type = "MeasureType" THEN [i \in 1..Len(values) |-> ToString(values[i])] ELSE values

\* The value of the parameter that carries the measure types or the fields.
SentFields(c) ==
  IF c.kind # "getmeas" THEN c.r.form["data_fields"][1]
  ELSE IF "meastype" \in DOMAIN c.r.form THEN c.r.form["meastype"][1]
  ELSE c.r.form["meastypes"][1]

BadCategory(c) == c.kind = "getmeas" /\ c.category \notin {1, 2}

\* C24: the calls drop invalid measure types and fields and send the valid
\* ones in their original order, joined with ","; a call is rejected, with nil
\* data, a nil Response and no request, exactly when no valid one remains or,
\* for Getmeas, the category is invalid, which is what the error then says
\* whatever the measure types are.
C24_PermissiveFiltering ==
  rq.pc = "done" =>
    LET expect == ValidOnly(rq.type, rq.values) IN
    /\ ~rq.r.posted <=> (BadCategory(rq) \/ expect = <<>>)
    /\ ~rq.r.posted => (rq.r.dataNil /\ rq.r.respNil /\ rq.r.err # "nil")
    /\ BadCategory(rq) => rq.r.err = "invalid category"
    /\ rq.r.posted => IsJoined(SentFields(rq), AsStrings(rq.type, expect), ",")

\* C24 witness: of <<"stroke", "hr_min", "steps">> handed to Getactivity the
\* last two have been sent, in that order.
C24_Witness ==
  /\ rq.pc = "done" /\ rq.kind = "getactivity" /\ rq.values = <<"stroke", "hr_min", "steps">>
  /\ rq.r.posted /\ SentFields(rq) = <<"hr_min", ",", "steps">>

DateKeys == {"startdate", "enddate", "startdateymd", "enddateymd"}

\* C25: no request of Getmeas, Getactivity or Getworkouts carries both
\* lastupdate and a date parameter; a set LastUpdate is sent and no dates;
\* without it the two dates are sent exactly when both are set.
C25_LastUpdateExclusive ==
  (rq.pc = "done" /\ rq.r.posted /\ rq.kind # "getintradayactivity") =>
    LET keys == DOMAIN rq.r.form
        dates == keys \cap DateKeys
    IN  /\ ~("lastupdate" \in keys /\ dates # {})
        /\ rq.opts.LastUpdate # 0 =>
             ("lastupdate" \in keys /\ rq.r.form["lastupdate"] = <<Unix(rq.opts.LastUpdate)>>)
        /\ rq.opts.LastUpdate = 0 =>
             /\ "lastupdate" \notin keys
             /\ dates # {} <=> (rq.opts.StartDate # 0 /\ rq.opts.EndDate # 0)
        /\ dates \in {{}, IF rq.kind = "getmeas" THEN {"startdate", "enddate"}
                                                 ELSE {"startdateymd", "enddateymd"}}

\* C25 witness: Getworkouts was called with LastUpdate, StartDate and
\* EndDate all set, and its request carries lastupdate.
C25_Witness ==
  /\ rq.pc = "done" /\ rq.kind = "getworkouts" /\ rq.r.posted
  /\ rq.opts.LastUpdate # 0 /\ rq.opts.StartDate # 0 /\ rq.opts.EndDate # 0
  /\ "lastupdate" \in DOMAIN rq.r.form

\* C29: a Getmeas request carries exactly one of meastype and meastypes:
\* meastype, with that type, when one valid measure type remains, meastypes,
\* with the types joined by ",", when two or more remain.
C29_MeasTypeParam ==
  (rq.pc = "done" /\ rq.kind = "getmeas" /\ rq.r.posted) =>
    LET keys == DOMAIN rq.r.form
        expect == AsStrings("MeasureType", ValidOnly("MeasureType", rq.values))
    IN  /\ ("meastype" \in keys) # ("meastypes" \in keys)
        /\ "meastype" \in keys <=> Len(expect) = 1
        /\ "meastype" \in keys => rq.r.form["meastype"] = << <<expect[1]>> >>
        /\ "meastypes" \in keys =>
             (Len(expect) >= 2 /\ Len(rq.r.form["meastypes"]) = 1
                /\ IsJoined(rq.r.form["meastypes"][1], expect, ","))

\* C29 witness: of the measure types <<0, 4, 2>> one remained and was sent
\* as meastype.
C29_Witness ==
  /\ rq.pc = "done" /\ rq.kind = "getmeas" /\ rq.r.posted /\ rq.values = <<0, 4, 2>>
  /\ rq.r.form["meastype"] = << <<"4">> >>

\* C30: a Getintradayactivity request carries neither offset nor
\* lastupdate, and is the request the same call builds with opts.Offset and
\* opts.LastUpdate zero.
C30_IntradayNoOffset ==
  (rq.pc = "done" /\ rq.kind = "getintradayactivity" /\ rq.r.posted) =>
    /\ "offset" \notin DOMAIN rq.r.form
    /\ "lastupdate" \notin DOMAIN rq.r.form
    /\ rq.r.form = Getintradayactivity(rq.values,
                      [rq.opts EXCEPT !.Offset = 0, !.LastUpdate = 0]).form

\* C30 witness: Getintradayactivity was called with opts.Offset and
\* opts.LastUpdate set and has built its request.
C30_Witness ==
  /\ rq.pc = "done" /\ rq.kind = "getintradayactivity" /\ rq.r.posted
  /\ rq.opts.Offset = 2 /\ rq.opts.LastUpdate = 25
====
